---- MODULE Spec2Model ----
(***************************************************************************)
(* Model of functions.py: the ECAP signal-processing functions             *)
(* (zero_template_subtraction, scaled_template_subtraction,                *)
(* alternating_stimulation_sum) and the dataset extractor                  *)
(* extract_electrodepair.                                                  *)
(*                                                                         *)
(* A pandas DataFrame is a sequence of row records (row order is the       *)
(* frame's order).  A numpy 1-D array is a sequence of floats, a 2-D array *)
(* a sequence of such sequences.  A Python exception is an outcome record  *)
(* [kind |-> "raise", exc, at]; a normal return is [kind |-> "return",...].*)
(* pandas semantics are those of the 2.x line the repository was written   *)
(* against (get_group on a one-element key list accepts a scalar).         *)
(***************************************************************************)
EXTENDS Integers, Sequences, FiniteSets, TLC

VARIABLES dataset, call

vars == <<dataset, call>>

(***************************************************************************)
(* Bounds of the explored inputs.                                          *)
(***************************************************************************)
MaxGroupRows == 3
MaxLen == 2

Raise(exc, at) == [kind |-> "raise", exc |-> exc, at |-> at]

NoCall == [op |-> "none"]

(***************************************************************************)
(* Measurement names are Python strings, modelled as sequences of          *)
(* one-character strings so that str.replace and float() can be computed.  *)
(***************************************************************************)
NameTime == <<"t", "i", "m", "e">>
NameZero == <<"z", "e", "r", "o", "t", "e", "m", "p", "l", "a", "t", "e">>
Name5cu == <<"5", "c", "u">>
Name7 == <<"7">>
NameAbccu == <<"a", "b", "c", "c", "u">>

Names == {NameTime, NameZero, Name5cu, Name7, NameAbccu}

DigitChars == {"0", "1", "2", "3", "4", "5", "6", "7", "8", "9"}

DigitVal(c) ==
    CASE c = "0" -> 0 [] c = "1" -> 1 [] c = "2" -> 2 [] c = "3" -> 3
      [] c = "4" -> 4 [] c = "5" -> 5 [] c = "6" -> 6 [] c = "7" -> 7
      [] c = "8" -> 8 [] c = "9" -> 9

(* str.replace("cu", ""): every non-overlapping occurrence, left to right. *)
RECURSIVE replace_cu(_)
replace_cu(s) ==
    IF Len(s) = 0 THEN <<>>
    ELSE IF Len(s) >= 2 /\ s[1] = "c" /\ s[2] = "u"
         THEN replace_cu(SubSeq(s, 3, Len(s)))
         ELSE <<s[1]>> \o replace_cu(Tail(s))

(* float(text) on the strings the names above can produce: an unsigned     *)
(* decimal digit string parses to its value, anything else is ValueError.  *)
float_ok(s) == Len(s) > 0 /\ \A i \in 1..Len(s) : s[i] \in DigitChars

RECURSIVE float_value(_)
float_value(s) ==
    IF Len(s) = 0 THEN 0
    ELSE 10 * float_value(SubSeq(s, 1, Len(s) - 1)) + DigitVal(s[Len(s)])

(***************************************************************************)
(* pandas operations used by extract_electrodepair.  Each returns a new    *)
(* frame; none of them writes to the frame it is applied to.               *)
(***************************************************************************)
(* DataFrame.groupby(keys).get_group(name): the rows whose key equals name *)
(* in frame order; KeyError (found = FALSE) when no row carries the key.   *)
(* keys lists the grouping columns; the key of a row is the value of the   *)
(* column when there is one column and the tuple of the values otherwise.  *)
group_key(row, keys) ==
    IF Len(keys) = 1 THEN row[keys[1]]
    ELSE [i \in 1..Len(keys) |-> row[keys[i]]]

get_group(frame, keys, name) ==
    LET g == SelectSeq(frame, LAMBDA r : group_key(r, keys) = name)
    IN  [found |-> Len(g) > 0, rows |-> g]

(* DataFrame.set_index(["name"]): the name column becomes the index.       *)
set_index(frame) ==
    [i \in 1..Len(frame) |->
        [index |-> frame[i].name,
         taskkey |-> frame[i].taskkey,
         stimulatingelectrode |-> frame[i].stimulatingelectrode,
         recordingelectrode |-> frame[i].recordingelectrode,
         polarity |-> frame[i].polarity,
         datapoints |-> frame[i].datapoints]]

has_label(frame, label) == \E i \in 1..Len(frame) : frame[i].index = label

(* frame.loc[label]["datapoints"] for a label carried by exactly one row.  *)
loc_datapoints(frame, label) ==
    frame[CHOOSE i \in 1..Len(frame) : frame[i].index = label].datapoints

(* DataFrame.drop(labels=label): the rows not labelled label, in order.    *)
drop(frame, label) == SelectSeq(frame, LAMBDA r : r.index # label)

(* Lines 101-111 with a name that does not parse skipped, not raised.      *)
RECURSIVE currents_loop_skip(_)
currents_loop_skip(index) ==
    IF Len(index) = 0 THEN [ok |-> TRUE, list |-> <<>>]
    ELSE IF Head(index) = NameZero \/ ~float_ok(replace_cu(Head(index)))
         THEN currents_loop_skip(Tail(index))
    ELSE [ok |-> TRUE,
          list |-> <<float_value(replace_cu(Head(index)))>>
                   \o currents_loop_skip(Tail(index)).list]

(* Lines 101-111: the loop over the anodic index.                          *)
RECURSIVE currents_loop(_)
currents_loop(index) ==
    IF Len(index) = 0 THEN [ok |-> TRUE, list |-> <<>>]
    ELSE IF Head(index) = NameZero THEN currents_loop(Tail(index))
    ELSE LET current == replace_cu(Head(index))
         IN  IF ~float_ok(current) THEN [ok |-> FALSE, list |-> <<>>]
             ELSE LET rest == currents_loop(Tail(index))
                  IN  [ok |-> rest.ok,
                       list |-> IF rest.ok THEN <<float_value(current)>> \o rest.list
                                ELSE <<>>]

index_of(frame) == [i \in 1..Len(frame) |-> frame[i].index]

(* Lines 116-126: the datapoints column as a list of rows.                 *)
datapoints_list(frame) == [i \in 1..Len(frame) |-> frame[i].datapoints]

(* Lines 87-88 returning an empty group instead of raising.                *)
polarity_group_any(electrodepair_data, label) ==
    [found |-> TRUE,
     rows |-> SelectSeq(electrodepair_data, LAMBDA r : r.polarity = label)]

(* Lines 87-88: electrodepair_data.groupby(["polarity"]).get_group(label). *)
polarity_group(electrodepair_data, label) ==
    get_group(electrodepair_data, <<"polarity">>, label)

(* Line 83 written as a boolean-mask filter: never a KeyError.             *)
taskkey_group_mask(ds, taskkey) ==
    [found |-> TRUE, rows |-> SelectSeq(ds, LAMBDA r : r.taskkey = taskkey)]

(* Line 83: dataset.groupby("taskkey").get_group(taskkey).                 *)
taskkey_group(ds, taskkey) == get_group(ds, <<"taskkey">>, taskkey)

(* Line 85: groupby(["stimulatingelectrode", "recordingelectrode"])        *)
(* .get_group(electrodepair).                                              *)
electrodepair_group(taskkey_data, electrodepair) ==
    get_group(taskkey_data,
              <<"stimulatingelectrode", "recordingelectrode">>,
              electrodepair)

(* Lines 90-128, after the two polarity groups have been found.            *)
extract_groups(anodic_rows, cathodic_rows) ==
    LET anodic_indexed == set_index(anodic_rows)
        cathodic_indexed == set_index(cathodic_rows)
    IN
    IF ~has_label(anodic_indexed, NameTime) THEN Raise("KeyError", "loc_time")
    ELSE IF ~has_label(cathodic_indexed, NameTime) THEN Raise("KeyError", "drop_time")
    ELSE
    LET time == loc_datapoints(anodic_indexed, NameTime)
        anodic_data == drop(anodic_indexed, NameTime)
        cathodic_data == drop(cathodic_indexed, NameTime)
        cur == currents_loop(index_of(anodic_data))
        anodic == datapoints_list(anodic_data)
        cathodic == datapoints_list(cathodic_data)
    IN
    IF ~cur.ok THEN Raise("ValueError", "float")
    ELSE IF Len(anodic) = 0 THEN Raise("IndexError", "anodic[0]")
    ELSE IF Len(cathodic) = 0 THEN Raise("IndexError", "cathodic[0]")
    ELSE [kind |-> "return",
          anodic |-> Tail(anodic),
          anodic_zero |-> Head(anodic),
          cathodic |-> Tail(cathodic),
          cathodic_zero |-> Head(cathodic),
          time |-> time,
          currents |-> cur.list]

extract_electrodepair(ds, taskkey, electrodepair) ==
    LET taskkey_data == taskkey_group(ds, taskkey)
    IN
    IF ~taskkey_data.found THEN Raise("KeyError", "taskkey")
    ELSE
    LET electrodepair_data == electrodepair_group(taskkey_data.rows, electrodepair)
    IN
    IF ~electrodepair_data.found THEN Raise("KeyError", "electrodepair")
    ELSE
    LET anodic_data == polarity_group(electrodepair_data.rows, "anodiccathodic")
        cathodic_data == polarity_group(electrodepair_data.rows, "cathodicanodic")
    IN
    IF ~anodic_data.found THEN Raise("KeyError", "anodiccathodic")
    ELSE IF ~cathodic_data.found THEN Raise("KeyError", "cathodicanodic")
    ELSE extract_groups(anodic_data.rows, cathodic_data.rows)

(***************************************************************************)
(* The tables explored.  Rows of task "T1", pair (1,2) carry every         *)
(* polarity and every name above; one row belongs to another task and one  *)
(* to another pair of task "T1".  Each row has its own sample sequence, so *)
(* a returned signal identifies the row it came from.  A table holds at    *)
(* most one row per (task, pair, polarity, name), at most MaxGroupRows     *)
(* rows per (task, pair, polarity) group, and is ordered by group (the     *)
(* order of the rows inside a group is free).                              *)
(***************************************************************************)
Polarities == {"anodiccathodic", "cathodicanodic"}

TaskKeys == {"T0", "T1"}

ElectrodePairs == {<<1, 2>>, <<1, 3>>}

NameNo(nm) ==
    CASE nm = NameTime -> 0 [] nm = NameZero -> 1 [] nm = Name5cu -> 2
      [] nm = Name7 -> 3 [] nm = NameAbccu -> 4

Samples(polarity, nm) ==
    LET k == (IF polarity = "anodiccathodic" THEN 10 ELSE 20) + NameNo(nm)
    IN  <<k, k + 100>>

Row(t, s, r, p, nm, d) ==
    [taskkey |-> t, stimulatingelectrode |-> s, recordingelectrode |-> r,
     polarity |-> p, name |-> nm, datapoints |-> d]

RowUniverse ==
    {Row("T1", 1, 2, p, nm, Samples(p, nm)) : p \in Polarities, nm \in Names}
    \cup {Row("T0", 1, 2, "anodiccathodic", Name5cu, <<30, 130>>),
          Row("T1", 1, 3, "cathodicanodic", NameTime, <<40, 140>>)}

RowsOf(frame) == {frame[i] : i \in 1..Len(frame)}

GroupNo(row) ==
    (IF row.taskkey = "T0" THEN 0 ELSE 100)
    + 10 * row.recordingelectrode
    + (IF row.polarity = "anodiccathodic" THEN 0 ELSE 1)

GroupSize(frame, row) ==
    Cardinality({i \in 1..Len(frame) : GroupNo(frame[i]) = GroupNo(row)})

(***************************************************************************)
(* Actions of the extractor specification.                                 *)
(***************************************************************************)
(* The caller's table grows by one row (the external data loader).         *)
AddRow ==
    /\ \E row \in RowUniverse \ RowsOf(dataset) :
          /\ Len(dataset) > 0 => GroupNo(dataset[Len(dataset)]) <= GroupNo(row)
          /\ GroupSize(dataset, row) < MaxGroupRows
          /\ dataset' = Append(dataset, row)
    /\ call' = NoCall

(* extract_electrodepair with drop applied to the caller's table.          *)
ExtractInPlace ==
    \E taskkey \in TaskKeys, electrodepair \in ElectrodePairs :
       /\ call' = [op |-> "extract_electrodepair",
                   taskkey |-> taskkey,
                   electrodepair |-> electrodepair,
                   out |-> extract_electrodepair(dataset, taskkey, electrodepair)]
       /\ dataset' = SelectSeq(dataset, LAMBDA r : r.name # NameTime)

(* One call of extract_electrodepair(dataset, taskkey, electrodepair).     *)
Extract ==
    \E taskkey \in TaskKeys, electrodepair \in ElectrodePairs :
       /\ call' = [op |-> "extract_electrodepair",
                   taskkey |-> taskkey,
                   electrodepair |-> electrodepair,
                   out |-> extract_electrodepair(dataset, taskkey, electrodepair)]
       /\ dataset' = dataset

(***************************************************************************)
(* Floating-point values.  A float is [n, d]: the rational n/d in lowest   *)
(* terms with d > 0, or d = 0 for the IEEE specials: n = 1 is +inf,        *)
(* n = -1 is -inf, n = 0 is nan.  The inputs explored are integers and     *)
(* dyadic fractions of small magnitude, on which binary64 arithmetic is    *)
(* exact, so rounding is not modelled; signed zeros are not distinguished. *)
(***************************************************************************)
Abs(x) == IF x < 0 THEN -x ELSE x

Sign(x) == IF x < 0 THEN -1 ELSE 1

RECURSIVE GCD(_, _)
GCD(a, b) == IF b = 0 THEN a ELSE GCD(b, a % b)

Norm(n, d) ==
    LET g == GCD(Abs(n), Abs(d))
    IN  [n |-> (Sign(d) * n) \div g, d |-> Abs(d) \div g]

F(k) == [n |-> k, d |-> 1]

NaN == [n |-> 0, d |-> 0]

Inf(sign) == [n |-> sign, d |-> 0]

IsNaN(x) == x.d = 0 /\ x.n = 0

IsInf(x) == x.d = 0 /\ x.n # 0

FNeg(x) == [n |-> -x.n, d |-> x.d]

FAdd(x, y) ==
    IF IsNaN(x) \/ IsNaN(y) THEN NaN
    ELSE IF IsInf(x) /\ IsInf(y) THEN (IF x.n = y.n THEN x ELSE NaN)
    ELSE IF IsInf(x) THEN x
    ELSE IF IsInf(y) THEN y
    ELSE Norm(x.n * y.d + y.n * x.d, x.d * y.d)

FSub(x, y) == FAdd(x, FNeg(y))

FMul(x, y) ==
    IF IsNaN(x) \/ IsNaN(y) THEN NaN
    ELSE IF IsInf(x) \/ IsInf(y)
         THEN (IF x.n = 0 \/ y.n = 0 THEN NaN ELSE Inf(Sign(x.n) * Sign(y.n)))
    ELSE Norm(x.n * y.n, x.d * y.d)

(* IEEE division, as numpy scalars divide (a RuntimeWarning, no error).    *)
FDiv(x, y) ==
    IF IsNaN(x) \/ IsNaN(y) THEN NaN
    ELSE IF IsInf(y) THEN (IF IsInf(x) THEN NaN ELSE F(0))
    ELSE IF IsInf(x) THEN Inf(Sign(x.n) * Sign(y.n))
    ELSE IF y.n = 0 THEN (IF x.n = 0 THEN NaN ELSE Inf(Sign(x.n)))
    ELSE Norm(x.n * y.d, x.d * y.n)

(***************************************************************************)
(* numpy 1-D array arithmetic with broadcasting: equal lengths combine     *)
(* element-wise, a length-1 operand is stretched, any other pair of        *)
(* lengths is a ValueError.                                                *)
(***************************************************************************)
Broadcastable(a, b) == Len(a) = Len(b) \/ Len(a) = 1 \/ Len(b) = 1

BroadcastLen(a, b) == IF Len(a) = 1 THEN Len(b) ELSE Len(a)

At(a, i) == IF Len(a) = 1 THEN a[1] ELSE a[i]

array_add(a, b) == [i \in 1..BroadcastLen(a, b) |-> FAdd(At(a, i), At(b, i))]

array_sub(a, b) == [i \in 1..BroadcastLen(a, b) |-> FSub(At(a, i), At(b, i))]

scalar_mul(x, a) == [i \in 1..Len(a) |-> FMul(x, a[i])]

Return(value) == [kind |-> "return", value |-> value]

(* A scalar argument is [v, np]: its value and whether it is a numpy       *)
(* scalar (np.float64, as the elements of the extracted currents are) or a *)
(* Python int/float.  Python's own "/" raises ZeroDivisionError on a zero  *)
(* divisor; as soon as one operand is a numpy scalar the division is       *)
(* numpy's.                                                                *)
truediv_raises(x, y) == ~x.np /\ ~y.np /\ y.v.n = 0 /\ y.v.d # 0

(* Line 16.                                                                *)
zero_template_subtraction(signal, zero_template) ==
    IF ~Broadcastable(signal, zero_template) THEN Raise("ValueError", "broadcast")
    ELSE Return(array_sub(signal, zero_template))

(* Line 35 with the template added instead of subtracted.                  *)
scaled_template_addition(no_ECAP, ECAP, no_ECAP_current, ECAP_current) ==
    IF truediv_raises(ECAP_current, no_ECAP_current)
    THEN Raise("ZeroDivisionError", "truediv")
    ELSE LET template == scalar_mul(FDiv(ECAP_current.v, no_ECAP_current.v), no_ECAP)
         IN  IF ~Broadcastable(ECAP, template) THEN Raise("ValueError", "broadcast")
             ELSE Return(array_add(ECAP, template))

(* Line 35: ECAP - ECAP_current/no_ECAP_current * no_ECAP.                 *)
scaled_template_subtraction(no_ECAP, ECAP, no_ECAP_current, ECAP_current) ==
    IF truediv_raises(ECAP_current, no_ECAP_current)
    THEN Raise("ZeroDivisionError", "truediv")
    ELSE LET template == scalar_mul(FDiv(ECAP_current.v, no_ECAP_current.v), no_ECAP)
         IN  IF ~Broadcastable(ECAP, template) THEN Raise("ValueError", "broadcast")
             ELSE Return(array_sub(ECAP, template))

(* Line 59: the default of the weight parameter.                           *)
weight_default == Norm(1, 2)

(* A weight argument is [given, v]; an omitted one takes the default.      *)
bound_weight(weight) == IF weight.given THEN weight.v ELSE weight_default

(* Line 70 with the same weight on both signals.                           *)
alternating_stimulation_same_weight(anodic, cathodic, weight) ==
    LET w == bound_weight(weight)
    IN  IF ~Broadcastable(anodic, cathodic) THEN Raise("ValueError", "broadcast")
        ELSE Return(array_add(scalar_mul(w, anodic), scalar_mul(w, cathodic)))

(* Line 70: weight * anodic + (1 - weight) * cathodic.                     *)
alternating_stimulation_sum(anodic, cathodic, weight) ==
    LET w == bound_weight(weight)
    IN  IF ~Broadcastable(anodic, cathodic) THEN Raise("ValueError", "broadcast")
        ELSE Return(array_add(scalar_mul(w, anodic),
                              scalar_mul(FSub(F(1), w), cathodic)))

(***************************************************************************)
(* Inputs of the signal-processor specification.                           *)
(***************************************************************************)
SampleVals == {F(-1), F(0), F(3)}

Signals == UNION {[1..len -> SampleVals] : len \in 1..MaxLen}

CurrentArgs == {[v |-> F(k), np |-> b] : k \in {0, 1, 2, 4}, b \in BOOLEAN}

WeightArgs ==
    {[given |-> TRUE, v |-> w] : w \in {F(0), Norm(1, 2), F(1), F(2), F(-1)}}
    \cup {[given |-> FALSE, v |-> F(0)]}

(* A call is made when no result is pending; the caller then takes the     *)
(* result (Finish) before the next call.                                   *)
CallZeroTemplate ==
    /\ call = NoCall
    /\ \E signal \in Signals, zero_template \in Signals :
          call' = [op |-> "zero_template_subtraction",
                   signal |-> signal,
                   zero_template |-> zero_template,
                   out |-> zero_template_subtraction(signal, zero_template)]
    /\ UNCHANGED dataset

CallScaled ==
    /\ call = NoCall
    /\ \E no_ECAP \in Signals, ECAP \in Signals,
          no_ECAP_current \in CurrentArgs, ECAP_current \in CurrentArgs :
          call' = [op |-> "scaled_template_subtraction",
                   no_ECAP |-> no_ECAP,
                   ECAP |-> ECAP,
                   no_ECAP_current |-> no_ECAP_current,
                   ECAP_current |-> ECAP_current,
                   out |-> scaled_template_subtraction(no_ECAP, ECAP,
                                                       no_ECAP_current, ECAP_current)]
    /\ UNCHANGED dataset

CallAlternating ==
    /\ call = NoCall
    /\ \E anodic \in Signals, cathodic \in Signals, weight \in WeightArgs :
          call' = [op |-> "alternating_stimulation_sum",
                   anodic |-> anodic,
                   cathodic |-> cathodic,
                   weight |-> weight,
                   out |-> alternating_stimulation_sum(anodic, cathodic, weight)]
    /\ UNCHANGED dataset

Finish ==
    /\ call # NoCall
    /\ call' = NoCall
    /\ UNCHANGED dataset

Init ==
    /\ dataset = <<>>
    /\ call = NoCall

(* The dataset extractor and its caller.                                   *)
Next == AddRow \/ Extract

Spec == Init /\ [][Next]_vars

(* The signal processor: calls on arrays, no table involved.               *)
NextSignal == CallZeroTemplate \/ CallScaled \/ CallAlternating \/ Finish

SpecSignal == Init /\ [][NextSignal]_vars

(***************************************************************************)
(* Vocabulary of the properties: the rows of the table that a call of      *)
(* extract_electrodepair selects, read off the table itself.               *)
(***************************************************************************)
IsExtract == call.op = "extract_electrodepair"

Returned == call.out.kind = "return"

TaskRowSet == {r \in RowsOf(dataset) : r.taskkey = call.taskkey}

PairRowSet ==
    {r \in TaskRowSet :
        <<r.stimulatingelectrode, r.recordingelectrode>> = call.electrodepair}

GroupRowSet(polarity) == {r \in PairRowSet : r.polarity = polarity}

(* The rows of a polarity group left once the time row is removed.         *)
Remaining(polarity) == {r \in GroupRowSet(polarity) : r.name # NameTime}

HasTime(polarity) == \E r \in GroupRowSet(polarity) : r.name = NameTime

(* The call got past the removal of the time rows (line 98).               *)
TimeRowsRemoved ==
    /\ IsExtract
    /\ HasTime("anodiccathodic")
    /\ HasTime("cathodicanodic")

(* A floating-point number followed by the suffix "cu".                    *)
NumberThenCu(nm) ==
    /\ Len(nm) >= 3
    /\ nm[Len(nm) - 1] = "c" /\ nm[Len(nm)] = "u"
    /\ \A i \in 1..(Len(nm) - 2) : nm[i] \in DigitChars

(* Digits with any number of "cu" in between, at least one digit.          *)
NumberWithCu(nm) ==
    /\ \E i \in 1..Len(nm) : nm[i] \in DigitChars
    /\ \A i \in 1..Len(nm) :
          \/ nm[i] \in DigitChars
          \/ nm[i] = "c" /\ i < Len(nm) /\ nm[i + 1] = "u"
          \/ nm[i] = "u" /\ i > 1 /\ nm[i - 1] = "c"

(* The value a name encodes: its digits read as a decimal number.          *)
Encodes(nm, current) ==
    LET digits == SelectSeq(nm, LAMBDA c : c \in DigitChars)
    IN  /\ NumberWithCu(nm)
        /\ current = float_value(digits)

SignalsOf(polarity) ==
    IF polarity = "anodiccathodic" THEN call.out.anodic ELSE call.out.cathodic

ZeroOf(polarity) ==
    IF polarity = "anodiccathodic" THEN call.out.anodic_zero
    ELSE call.out.cathodic_zero

Elements(seq) == {seq[i] : i \in 1..Len(seq)}

(***************************************************************************)
(* C1.  extract_electrodepair called with a task identifier that no row of *)
(* the table carries, or with an electrode pair that no row of the         *)
(* selected task carries, raises the lookup's KeyError (NotFound) at that  *)
(* lookup and returns no Extraction Result.                                *)
(***************************************************************************)
C1_UnknownKeyIsNotFound ==
    IsExtract =>
       /\ TaskRowSet = {} => call.out = Raise("KeyError", "taskkey")
       /\ TaskRowSet # {} /\ PairRowSet = {} =>
             call.out = Raise("KeyError", "electrodepair")

C1_Witness ==
    /\ IsExtract
    /\ Len(dataset) >= 2
    /\ TaskRowSet # {}
    /\ PairRowSet = {}
    /\ call.out.kind = "raise"

(***************************************************************************)
(* C2.  When extract_electrodepair returns and a polarity group contains a *)
(* row named zerotemplate, at whatever position, the zero-template signal  *)
(* returned for that polarity is that row's sample sequence, and that row  *)
(* is no entry of the polarity's returned signals and adds no entry to the *)
(* returned currents.                                                      *)
(***************************************************************************)
C2_ZeroTemplateByName ==
    IsExtract /\ Returned =>
       /\ \A p \in Polarities :
             \A r \in Remaining(p) :
                r.name = NameZero =>
                   /\ ZeroOf(p) = r.datapoints
                   /\ r.datapoints \notin Elements(SignalsOf(p))
       /\ Len(call.out.currents) =
             Cardinality({r \in Remaining("anodiccathodic") : r.name # NameZero})

(***************************************************************************)
(* C3.  When extract_electrodepair returns, for every position i of the    *)
(* returned currents the i-th anodic signal is the sample sequence of the  *)
(* anodic row whose name encodes currents[i], and the i-th cathodic signal *)
(* is the sample sequence of the cathodic row whose name encodes           *)
(* currents[i].                                                            *)
(***************************************************************************)
C3_SignalsAlignedWithCurrents ==
    IsExtract /\ Returned =>
       \A i \in 1..Len(call.out.currents) :
          \A p \in Polarities :
             /\ i <= Len(SignalsOf(p))
             /\ \E r \in Remaining(p) :
                   /\ Encodes(r.name, call.out.currents[i])
                   /\ SignalsOf(p)[i] = r.datapoints

(***************************************************************************)
(* C4 as stated.  Once the time rows are removed, a remaining row of       *)
(* either polarity group whose name is neither zerotemplate nor a number   *)
(* followed by "cu" makes extract_electrodepair raise the parse error      *)
(* (ValueError, MalformedMeasurementName).                                 *)
(***************************************************************************)
C4_AnyMalformedNameFails ==
    TimeRowsRemoved =>
       ((\E p \in Polarities : \E r \in Remaining(p) :
            r.name # NameZero /\ ~NumberThenCu(r.name))
        => call.out = Raise("ValueError", "float"))

(***************************************************************************)
(* C4 as amended.  Once the time rows are removed, a remaining row of the  *)
(* anodic-first group whose name is not zerotemplate and is not a number   *)
(* once every "cu" in it is deleted makes extract_electrodepair raise the  *)
(* parse error (ValueError, MalformedMeasurementName).                     *)
(***************************************************************************)
C4_AnodicUnparsableNameFails ==
    TimeRowsRemoved =>
       ((\E r \in Remaining("anodiccathodic") :
            r.name # NameZero /\ ~NumberWithCu(r.name))
        => call.out = Raise("ValueError", "float"))

C4_Witness ==
    /\ TimeRowsRemoved
    /\ \E r \in Remaining("anodiccathodic") : r.name = NameAbccu
    /\ \E r \in Remaining("anodiccathodic") : r.name = Name7
    /\ call.out.kind = "raise"

(***************************************************************************)
(* C5.  When the rows of the selected task and electrode pair contain no   *)
(* anodic-first row, or no cathodic-first row, extract_electrodepair       *)
(* raises the polarity lookup's KeyError (MissingPolarity) and returns no  *)
(* Extraction Result.                                                      *)
(***************************************************************************)
C5_MissingPolarityFails ==
    IsExtract /\ PairRowSet # {} =>
       /\ GroupRowSet("anodiccathodic") = {} =>
             call.out = Raise("KeyError", "anodiccathodic")
       /\ GroupRowSet("anodiccathodic") # {} /\ GroupRowSet("cathodicanodic") = {} =>
             call.out = Raise("KeyError", "cathodicanodic")

C5_Witness ==
    /\ IsExtract
    /\ Cardinality(GroupRowSet("anodiccathodic")) >= 2
    /\ GroupRowSet("cathodicanodic") = {}
    /\ call.out.kind = "raise"

(***************************************************************************)
(* C6.  In every Extraction Result that extract_electrodepair returns the  *)
(* number of anodic signals equals the number of cathodic signals and      *)
(* equals the length of the currents.                                      *)
(***************************************************************************)
C6_EqualCounts ==
    IsExtract /\ Returned =>
       /\ Len(call.out.anodic) = Len(call.out.cathodic)
       /\ Len(call.out.anodic) = Len(call.out.currents)

(***************************************************************************)
(* C7.  scaled_template_subtraction called with a sub-threshold current    *)
(* equal to zero raises an arithmetic error (ZeroDivisionError) instead of *)
(* returning a signal, whatever the zero-valued argument and the signals.  *)
(***************************************************************************)
C7_ZeroCurrentIsError ==
    call.op = "scaled_template_subtraction" /\ call.no_ECAP_current.v = F(0) =>
       call.out = Raise("ZeroDivisionError", "truediv")

(***************************************************************************)
(* C8.  For every signal A and every current c other than zero,            *)
(* scaled_template_subtraction(A, A, c, c) returns a signal as long as A   *)
(* whose samples are all 0.                                                *)
(***************************************************************************)
C8_SelfSubtractionIsZero ==
    /\ call.op = "scaled_template_subtraction"
    /\ call.no_ECAP = call.ECAP
    /\ call.no_ECAP_current = call.ECAP_current
    /\ call.ECAP_current.v # F(0)
    => /\ call.out.kind = "return"
       /\ Len(call.out.value) = Len(call.ECAP)
       /\ \A i \in 1..Len(call.out.value) : call.out.value[i] = F(0)

C8_Witness ==
    /\ call.op = "scaled_template_subtraction"
    /\ call.no_ECAP = call.ECAP
    /\ call.no_ECAP_current = call.ECAP_current
    /\ call.ECAP_current.v = F(4)
    /\ call.ECAP = <<F(3), F(-1)>>
    /\ call.out.kind = "return"

(***************************************************************************)
(* C9.  For equal-length signals A and B, alternating_stimulation_sum      *)
(* returns A for weight 1, B for weight 0, the sample-wise mean of A and B *)
(* when the weight is omitted, and for any weight w, in [0,1] or not,      *)
(* returns without error the signal B + w*(A - B) = w*A + (1-w)*B.         *)
(***************************************************************************)
C9_WeightedSum ==
    call.op = "alternating_stimulation_sum" /\ Len(call.anodic) = Len(call.cathodic) =>
       /\ call.out.kind = "return"
       /\ Len(call.out.value) = Len(call.anodic)
       /\ call.weight.given /\ call.weight.v = F(1) => call.out.value = call.anodic
       /\ call.weight.given /\ call.weight.v = F(0) => call.out.value = call.cathodic
       /\ ~call.weight.given =>
             \A i \in 1..Len(call.anodic) :
                FAdd(call.out.value[i], call.out.value[i])
                   = FAdd(call.anodic[i], call.cathodic[i])
       /\ call.weight.given =>
             \A i \in 1..Len(call.anodic) :
                FSub(call.out.value[i], call.cathodic[i])
                   = FMul(call.weight.v, FSub(call.anodic[i], call.cathodic[i]))

C9_Witness ==
    /\ call.op = "alternating_stimulation_sum"
    /\ call.weight.given
    /\ call.weight.v = F(2)
    /\ call.anodic = <<F(3), F(0)>>
    /\ call.cathodic = <<F(-1), F(3)>>
    /\ call.out = Return(<<F(7), F(-3)>>)

(***************************************************************************)
(* C10.  extract_electrodepair leaves the source table unchanged: whether  *)
(* the call returns or raises at any step, the table afterwards has the    *)
(* same rows in the same order with the same column values.                *)
(***************************************************************************)
C10_TableUnchanged ==
    [][call'.op = "extract_electrodepair" => dataset' = dataset]_vars

C10_Witness ==
    /\ IsExtract
    /\ Returned
    /\ Len(dataset) >= 5

====
